---- MODULE Spec2Model ----
(***************************************************************************)
(* The chain-state tracker of protocol/protocol.go: the Chain object's     *)
(* guarded register (height, block, snapshot), the height feed goroutine,  *)
(* the BlockWaiter / BlockSoonWaiter goroutines and the snapshot           *)
(* persistence goroutine with its one-slot channel.                        *)
(*                                                                         *)
(* Every access to c.state.height, c.state.block and c.state.snapshot in   *)
(* the source happens between c.state.cond.L.Lock() and the deferred       *)
(* Unlock(), and no goroutine blocks while it holds the mutex (cond.Wait   *)
(* releases it).  Each critical section is therefore one step of the       *)
(* model; the places where a goroutine can be preempted without the mutex  *)
(* (before its first Lock, parked in cond.Wait, woken but not yet          *)
(* re-locked, at a select) are the program counters below.                 *)
(***************************************************************************)
EXTENDS Integers, Sequences, FiniteSets, TLC

VARIABLES
    height,            \* c.state.height
    block,             \* c.state.block
    snapshot,          \* c.state.snapshot
    feed,              \* the goroutine ranging over the heights channel
    lastPub,           \* history: the arguments of the latest setState call
    obsHeight,         \* the value the observer's latest Height() call returned
    obsState,          \* the pair the observer's latest State() call returned
    newChainErr,       \* the error result of NewChain
    seeded,            \* history: the (block, snapshot) NewChain left in c.state,
                       \* or NoState where it is not kept
    latestHeight,      \* history: the height store.LatestSnapshot returned,
                       \* or NoRead where it is not kept
    wpc,               \* BlockWaiter goroutines: program counter
    wtarget,           \* BlockWaiter goroutines: the height argument
    wch,               \* BlockWaiter goroutines: values buffered in ch
    spc,               \* BlockSoonWaiter goroutines: program counter
    starget,           \* BlockSoonWaiter goroutines: the height argument
    sch,               \* BlockSoonWaiter goroutines: values buffered in ch
    sctx,              \* BlockSoonWaiter calls: ctx.Done() is closed
    callHeight,        \* history: c.state.height when BlockSoonWaiter was called
    cancelHeight,      \* history: c.state.height when ctx was cancelled
    pendingSnapshots,  \* c.pendingSnapshots, a channel of capacity 1
    wkpc,              \* persistence goroutine: program counter
    wkps,              \* persistence goroutine: the request ps it received
    ctxDone,           \* the ctx passed to NewChain: Done() is closed
    prod,              \* the producer of snapshot requests: program counter
    preq,              \* the request the producer is sending
    nextId,            \* history: number of requests created so far
    attempts,          \* history: the requests SaveSnapshot was called with
    outcomes           \* history: whether each SaveSnapshot call succeeded

chainVars   == <<height, block, snapshot>>
feedVars    == <<feed>>
obsVars     == <<lastPub, obsHeight, obsState>>
ctorVars    == <<newChainErr, seeded, latestHeight>>
waitVars    == <<wpc, wtarget, wch>>
soonVars    == <<spc, starget, sch, sctx, callHeight, cancelHeight>>
persistVars == <<pendingSnapshots, wkpc, wkps, ctxDone, prod, preq, nextId, attempts,
                 outcomes>>
vars == <<chainVars, feedVars, obsVars, ctorVars, waitVars, soonVars, persistVars>>

---------------------------------------------------------------------------
(* Bounds.                                                                 *)

\* Heights are uint64 in the source; the model keeps the wrap-around at a
\* smaller width.
HeightBits == 3
Modulus == 2 ^ HeightBits
MaxUint == Modulus - 1
Heights == 0 .. MaxUint

\* Number of concurrent BlockWaiter calls and of BlockSoonWaiter calls.
NumWaiters == 2
NumSoonWaiters == 1
\* Number of snapshot requests the producer creates, and the largest height
\* a request carries.
MaxRequests == 3
MaxReqHeight == 2

---------------------------------------------------------------------------
(* Values.                                                                 *)

\* A *legacy.Block is modelled by its Height field; Nil is the nil pointer.
Nil == <<>>
BlockAt(h) == <<h>>
BlockHeight(b) == b[1]
Blocks == {BlockAt(h) : h \in Heights}

\* A *state.Snapshot: the nil pointer, state.Empty(), or a populated one.
NilSnapshot == "nil"
EmptySnapshot == "empty"
StoredSnapshots == {"s1", "s2"}
Snapshots == {EmptySnapshot} \cup StoredSnapshots

ErrTheDistantFuture == "ErrTheDistantFuture"
CtxErr == "ctx.Err()"
Success == "nil"

slop == 3

\* make(chan pendingSnapshot, 1)
pendingSnapshotsCapUnbuffered == 1 - 1
pendingSnapshotsCapTwo == 1 + 1
pendingSnapshotsCap == 1

Standalone == 1 .. NumWaiters
SoonIds == 1 .. NumSoonWaiters
\* The BlockWaiter goroutine that BlockSoonWaiter call s starts.
Inner(s) == NumWaiters + s
WaiterIds == 1 .. (NumWaiters + NumSoonWaiters)

NoPublish == <<>>
NoRead == 0 - 1
NoState == <<>>

\* The nil error.
NoError == "nil"

---------------------------------------------------------------------------
(* NewChain: the register as seeded from the store.  getBlock and          *)
(* latestSnapshot are the first results of store.GetBlock and              *)
(* store.LatestSnapshot; their error results are discarded by the code,    *)
(* and so is the height that store.LatestSnapshot returns.  err is the     *)
(* second result of NewChain itself: return c, nil.                        *)

NewChain(storeHeight, getBlock, latestSnapshot) ==
    [height   |-> storeHeight,
     block    |-> IF storeHeight < 1 THEN Nil ELSE getBlock,
     snapshot |-> IF storeHeight < 1 THEN EmptySnapshot ELSE latestSnapshot,
     err      |-> NoError]

\* What the store can answer: the block at the asked height or, with an
\* error, nil; a stored snapshot or, with an error, nil.
GetBlockResults(h) == {BlockAt(h), Nil}
LatestSnapshotResults == StoredSnapshots \cup {NilSnapshot}

InitRest ==
    /\ lastPub = NoPublish
    /\ obsHeight = NoRead
    /\ obsState = NoState
    /\ wpc = [w \in WaiterIds |-> "idle"]
    /\ wtarget = [w \in WaiterIds |-> 0]
    /\ wch = [w \in WaiterIds |-> 0]
    /\ spc = [s \in SoonIds |-> "idle"]
    /\ starget = [s \in SoonIds |-> 0]
    /\ sch = [s \in SoonIds |-> <<>>]
    /\ sctx = [s \in SoonIds |-> FALSE]
    /\ callHeight = [s \in SoonIds |-> 0]
    /\ cancelHeight = [s \in SoonIds |-> NoRead]
    /\ pendingSnapshots = <<>>
    /\ wkpc = "select"
    /\ wkps = <<>>
    /\ ctxDone = FALSE
    /\ prod = "idle"
    /\ preq = <<>>
    /\ nextId = 0
    /\ attempts = <<>>
    /\ outcomes = <<>>

\* heights may be nil: then no feed goroutine is started.  The histories
\* seeded and latestHeight are not kept here; InitLoaded keeps the first and
\* InitSeeded both.
Init ==
    /\ \E sh \in Heights :
         \E gb \in GetBlockResults(sh), ls \in LatestSnapshotResults :
            LET c == NewChain(sh, gb, ls)
            IN  /\ height = c.height
                /\ block = c.block
                /\ snapshot = c.snapshot
                /\ newChainErr = c.err
    /\ seeded = NoState
    /\ latestHeight = NoRead
    /\ feed \in {"absent", "ranging"}
    /\ InitRest

\* The initial states of a chain built with heights = nil.
InitNoFeed == Init /\ feed = "absent"

\* The initial states in which both loads succeeded and heights is nil,
\* with the seeded pair recorded.
InitLoaded ==
    /\ \E sh \in Heights :
         \E ls \in StoredSnapshots :
            LET c == NewChain(sh, BlockAt(sh), ls)
            IN  /\ height = c.height
                /\ block = c.block
                /\ snapshot = c.snapshot
                /\ newChainErr = c.err
                /\ seeded = <<c.block, c.snapshot>>
    /\ latestHeight = NoRead
    /\ feed = "absent"
    /\ InitRest

\* The height that store.LatestSnapshot returns with its snapshot: snapshots
\* are saved in the background, one at a time, and a failed save is not
\* retried, so the latest one may belong to a height below store.Height().
LatestSnapshotHeights(storeHeight) == 1 .. storeHeight

\* The initial states of InitLoaded with the height of the loaded snapshot
\* recorded.
InitSeeded ==
    /\ \E sh \in Heights :
         \E ls \in StoredSnapshots :
            LET c == NewChain(sh, BlockAt(sh), ls)
            IN  /\ height = c.height
                /\ block = c.block
                /\ snapshot = c.snapshot
                /\ newChainErr = c.err
                /\ seeded = <<c.block, c.snapshot>>
                /\ IF sh < 1
                     THEN latestHeight = NoRead
                     ELSE latestHeight \in LatestSnapshotHeights(sh)
    /\ feed = "absent"
    /\ InitRest

---------------------------------------------------------------------------
(* The register.                                                           *)

\* c.state.cond.Broadcast(): every goroutine parked in cond.Wait is made
\* runnable; it still has to re-acquire the mutex.
Broadcast ==
    wpc' = [w \in WaiterIds |-> IF wpc[w] = "waiting" THEN "woken" ELSE wpc[w]]

\* Height()
Height == height

\* State()
State == <<block, snapshot>>

setStateAlwaysHeight(b, s) ==
    /\ block' = b
    /\ snapshot' = s
    /\ IF b # Nil
         THEN height' = BlockHeight(b) /\ Broadcast
         ELSE UNCHANGED <<height, wpc>>

setStateOnlyAdvancing(b, s) ==
    IF b # Nil /\ BlockHeight(b) > height
      THEN block' = b /\ snapshot' = s /\ height' = BlockHeight(b) /\ Broadcast
      ELSE UNCHANGED <<block, snapshot, height, wpc>>

setStateNoHeight(b, s) ==
    /\ block' = b
    /\ snapshot' = s
    /\ UNCHANGED <<height, wpc>>

setStateSignal(b, s) ==
    /\ block' = b
    /\ snapshot' = s
    /\ IF b # Nil /\ BlockHeight(b) > height
         THEN /\ height' = BlockHeight(b)
              /\ IF \E w \in WaiterIds : wpc[w] = "waiting"
                   THEN \E w \in WaiterIds :
                          /\ wpc[w] = "waiting"
                          /\ wpc' = [wpc EXCEPT ![w] = "woken"]
                   ELSE UNCHANGED wpc
         ELSE UNCHANGED <<height, wpc>>

setStateBlockOnly(b, s) ==
    /\ block' = b
    /\ UNCHANGED snapshot
    /\ IF b # Nil /\ BlockHeight(b) > height
         THEN height' = BlockHeight(b) /\ Broadcast
         ELSE UNCHANGED <<height, wpc>>

\* setState(b, s)
setState(b, s) ==
    /\ block' = b
    /\ snapshot' = s
    /\ IF b # Nil /\ BlockHeight(b) > height
         THEN height' = BlockHeight(b) /\ Broadcast
         ELSE UNCHANGED <<height, wpc>>

\* setHeight(h), called by the feed goroutine; its body is not in
\* protocol.go.  Modelled from the description of advanceHeightOnly: it
\* advances the height and wakes the waiters without touching block and
\* snapshot, and never moves the height backwards.
setHeight(h) ==
    /\ UNCHANGED <<block, snapshot>>
    /\ IF h > height
         THEN height' = h /\ Broadcast
         ELSE UNCHANGED <<height, wpc>>

---------------------------------------------------------------------------
(* Callers of the register.                                                *)

\* A caller publishes a block and a snapshot.
Publish(b, s) ==
    /\ setState(b, s)
    /\ lastPub' = <<b, s>>
    /\ UNCHANGED <<feedVars, obsHeight, obsState, wtarget, wch, soonVars, persistVars,
                   ctorVars>>

\* for h := range heights { c.setHeight(h) }: one value received and applied.
FeedHeight(h) ==
    /\ feed = "ranging"
    /\ setHeight(h)
    /\ UNCHANGED <<feedVars, obsVars, wtarget, wch, soonVars, persistVars, ctorVars>>

\* The heights channel is closed: the range loop ends.
FeedClosed ==
    /\ feed = "ranging"
    /\ feed' = "exited"
    /\ UNCHANGED <<chainVars, obsVars, waitVars, soonVars, persistVars, ctorVars>>

\* An observer calls Height().
ReadHeight ==
    /\ obsHeight' = Height
    /\ UNCHANGED <<chainVars, feedVars, lastPub, obsState, waitVars, soonVars,
                   persistVars, ctorVars>>

NextChain ==
    \/ \E b \in Blocks \cup {Nil}, s \in Snapshots : Publish(b, s)
    \/ \E h \in Heights : FeedHeight(h)
    \/ FeedClosed
    \/ ReadHeight

SpecChain == Init /\ [][NextChain]_vars

\* A chain built without a height feed: only setState changes the register.
NextPublish ==
    \/ \E b \in Blocks \cup {Nil}, s \in Snapshots : Publish(b, s)
    \/ ReadHeight

SpecPublish == InitNoFeed /\ [][NextPublish]_vars

\* The same, from a store whose loads succeeded.
SpecLoaded == InitLoaded /\ [][NextPublish]_vars

\* An observer calls State().
ReadState ==
    /\ obsState' = State
    /\ UNCHANGED <<chainVars, feedVars, lastPub, obsHeight, waitVars, soonVars,
                   persistVars, ctorVars>>

\* Callers that publish each block with a snapshot of its own: no two
\* publishes with different blocks carry the same snapshot, except that the
\* two stored snapshots alternate along the heights.
SnapshotOf(h) == IF h % 2 = 1 THEN "s1" ELSE "s2"
PublishedPairs ==
    {<<BlockAt(h), SnapshotOf(h)>> : h \in Heights} \cup {<<Nil, EmptySnapshot>>}

NextState ==
    \/ \E p \in PublishedPairs : Publish(p[1], p[2])
    \/ ReadState

SpecState == InitLoaded /\ [][NextState]_vars

\* Callers of a chain built without a feed from a store whose loads
\* succeeded.
NextSeeded ==
    \/ \E b \in Blocks \cup {Nil}, s \in {"s1"} : Publish(b, s)
    \/ ReadState

SpecSeeded == InitSeeded /\ [][NextSeeded]_vars

---------------------------------------------------------------------------
(* BlockWaiter.                                                            *)

\* BlockWaiter(height): makes ch with room for one value and starts the
\* goroutine, which has not locked the mutex yet.
BlockWaiter(w, h) ==
    /\ wpc[w] = "idle"
    /\ wpc' = [wpc EXCEPT ![w] = "lock"]
    /\ wtarget' = [wtarget EXCEPT ![w] = h]
    /\ wch' = [wch EXCEPT ![w] = 0]

WaiterRunNoRecheck(w) ==
    /\ wpc[w] \in {"lock", "woken"}
    /\ wch[w] < 1
    /\ IF wpc[w] = "lock" /\ height < wtarget[w]
         THEN /\ wpc' = [wpc EXCEPT ![w] = "waiting"]
              /\ UNCHANGED wch
         ELSE /\ wch' = [wch EXCEPT ![w] = wch[w] + 1]
              /\ wpc' = [wpc EXCEPT ![w] = "done"]
    /\ UNCHANGED wtarget

\* The goroutine of BlockWaiter holding the mutex: after Lock(), or after
\* cond.Wait() has re-locked it.  While the height is below the target it
\* parks in cond.Wait() (which unlocks); otherwise it sends on ch, whose
\* buffer is free, and returns (the deferred Unlock).
WaiterRun(w) ==
    /\ wpc[w] \in {"lock", "woken"}
    /\ IF height < wtarget[w]
         THEN /\ wpc' = [wpc EXCEPT ![w] = "waiting"]
              /\ UNCHANGED wch
         ELSE /\ wch[w] < 1
              /\ wch' = [wch EXCEPT ![w] = wch[w] + 1]
              /\ wpc' = [wpc EXCEPT ![w] = "done"]
    /\ UNCHANGED wtarget

\* A caller calls BlockWaiter(h).
CallBlockWaiter(w, h) ==
    /\ BlockWaiter(w, h)
    /\ UNCHANGED <<chainVars, feedVars, obsVars, soonVars, persistVars, ctorVars>>

\* A BlockWaiter goroutine takes its step.
WaiterStep(w) ==
    /\ WaiterRun(w)
    /\ UNCHANGED <<chainVars, feedVars, obsVars, soonVars, persistVars, ctorVars>>

NextWait ==
    \/ \E b \in Blocks \cup {Nil}, s \in {"s1"} : Publish(b, s)
    \/ \E h \in Heights : FeedHeight(h)
    \/ FeedClosed
    \/ \E w \in Standalone, h \in Heights : CallBlockWaiter(w, h)
    \/ \E w \in Standalone : WaiterStep(w)

SpecWait == Init /\ [][NextWait]_vars

\* A runnable goroutine is eventually scheduled and eventually gets the mutex.
FairSpecWait ==
    SpecWait /\ \A w \in Standalone : WF_vars(WaiterStep(w))

---------------------------------------------------------------------------
(* BlockSoonWaiter.                                                        *)

\* BlockSoonWaiter(ctx, height): makes ch with room for one value and starts
\* the goroutine.
BlockSoonWaiter(s, h) ==
    /\ spc[s] = "idle"
    /\ spc' = [spc EXCEPT ![s] = "check"]
    /\ starget' = [starget EXCEPT ![s] = h]
    /\ sch' = [sch EXCEPT ![s] = <<>>]

\* The goroutine up to its select: it calls c.Height(), adds slop in uint64
\* arithmetic and either sends ErrTheDistantFuture and returns, or calls
\* BlockWaiter(height) and goes on to the select.
SoonCheck(s) ==
    /\ spc[s] = "check"
    /\ IF starget[s] > (Height + slop) % Modulus
         THEN /\ Len(sch[s]) < 1
              /\ sch' = [sch EXCEPT ![s] = Append(sch[s], ErrTheDistantFuture)]
              /\ spc' = [spc EXCEPT ![s] = "done"]
              /\ UNCHANGED waitVars
         ELSE /\ BlockWaiter(Inner(s), starget[s])
              /\ spc' = [spc EXCEPT ![s] = "select"]
              /\ UNCHANGED sch
    /\ UNCHANGED starget

SoonSelectNoWait(s) ==
    /\ spc[s] = "select"
    /\ Len(sch[s]) < 1
    /\ \/ /\ sch' = [sch EXCEPT ![s] = Append(sch[s], Success)]
          /\ wch' = [wch EXCEPT ![Inner(s)] = 0]
       \/ /\ sctx[s]
          /\ sch' = [sch EXCEPT ![s] = Append(sch[s], CtxErr)]
          /\ UNCHANGED wch
    /\ spc' = [spc EXCEPT ![s] = "done"]
    /\ UNCHANGED <<starget, wpc, wtarget>>

\* The select: a case whose channel is ready is taken; when both are ready
\* either one may be.
SoonSelect(s) ==
    /\ spc[s] = "select"
    /\ Len(sch[s]) < 1
    /\ \/ /\ wch[Inner(s)] >= 1
          /\ wch' = [wch EXCEPT ![Inner(s)] = wch[Inner(s)] - 1]
          /\ sch' = [sch EXCEPT ![s] = Append(sch[s], Success)]
       \/ /\ sctx[s]
          /\ sch' = [sch EXCEPT ![s] = Append(sch[s], CtxErr)]
          /\ UNCHANGED wch
    /\ spc' = [spc EXCEPT ![s] = "done"]
    /\ UNCHANGED <<starget, wpc, wtarget>>

\* A caller calls BlockSoonWaiter(ctx, h).
CallBlockSoonWaiter(s, h) ==
    /\ BlockSoonWaiter(s, h)
    /\ callHeight' = [callHeight EXCEPT ![s] = height]
    /\ UNCHANGED <<chainVars, feedVars, obsVars, waitVars, sctx, cancelHeight,
                   persistVars, ctorVars>>

SoonCheckStep(s) ==
    /\ SoonCheck(s)
    /\ UNCHANGED <<chainVars, feedVars, obsVars, sctx, callHeight, cancelHeight,
                   persistVars, ctorVars>>

SoonSelectStep(s) ==
    /\ SoonSelect(s)
    /\ UNCHANGED <<chainVars, feedVars, obsVars, sctx, callHeight, cancelHeight,
                   persistVars, ctorVars>>

\* The ctx of call s is cancelled or times out; this can happen before the
\* call as well as after it.
Cancel(s) ==
    /\ ~sctx[s]
    /\ sctx' = [sctx EXCEPT ![s] = TRUE]
    /\ cancelHeight' = [cancelHeight EXCEPT ![s] = height]
    /\ UNCHANGED <<chainVars, feedVars, obsVars, waitVars, spc, starget, sch,
                   callHeight, persistVars, ctorVars>>

NextSoon ==
    \/ \E b \in Blocks \cup {Nil}, s \in {"s1"} : Publish(b, s)
    \/ \E h \in Heights : FeedHeight(h)
    \/ FeedClosed
    \/ \E s \in SoonIds, h \in Heights : CallBlockSoonWaiter(s, h)
    \/ \E s \in SoonIds : SoonCheckStep(s)
    \/ \E s \in SoonIds : WaiterStep(Inner(s))
    \/ \E s \in SoonIds : SoonSelectStep(s)
    \/ \E s \in SoonIds : Cancel(s)

SpecSoon == Init /\ [][NextSoon]_vars

---------------------------------------------------------------------------
(* Snapshot persistence.                                                   *)

\* A pendingSnapshot{height, snapshot}; id is history, numbering the
\* requests in the order they were created.  The history is kept for the
\* first MaxRequests requests; a request created after them has id 0 and
\* leaves no trace in attempts and outcomes.
PendingSnapshot(h, s, n) == [height |-> h, snapshot |-> s, id |-> n]

\* The producer of snapshot requests is not in protocol.go.  Modelled from
\* the description of the queue: a request is created and sent on the
\* channel, and the send suspends the producer while the channel is full.
RequestSnapshot(h, s) ==
    /\ prod = "idle"
    /\ nextId < MaxRequests
    /\ prod' = "sending"
    /\ preq' = PendingSnapshot(h, s, nextId + 1)
    /\ nextId' = nextId + 1
    /\ UNCHANGED <<pendingSnapshots, wkpc, wkps, ctxDone, attempts, outcomes>>

\* The producer goes on creating requests once the history is full.
RequestMore(h, s) ==
    /\ prod = "idle"
    /\ nextId = MaxRequests
    /\ prod' = "sending"
    /\ preq' = PendingSnapshot(h, s, 0)
    /\ UNCHANGED <<pendingSnapshots, wkpc, wkps, ctxDone, nextId, attempts, outcomes>>

\* c.pendingSnapshots <- ps: possible while the buffer has room.
EnqueueSend ==
    /\ prod = "sending"
    /\ Len(pendingSnapshots) < pendingSnapshotsCap
    /\ pendingSnapshots' = Append(pendingSnapshots, preq)
    /\ prod' = "idle"
    /\ preq' = <<>>
    /\ UNCHANGED <<wkpc, wkps, ctxDone, nextId, attempts, outcomes>>

\* The ctx passed to NewChain is cancelled.
CancelCtx ==
    /\ ~ctxDone
    /\ ctxDone' = TRUE
    /\ UNCHANGED <<pendingSnapshots, wkpc, wkps, prod, preq, nextId, attempts,
                   outcomes>>

WorkerDoneAfterQueue ==
    /\ wkpc = "select"
    /\ ctxDone
    /\ pendingSnapshots = <<>>
    /\ wkpc' = "exited"
    /\ UNCHANGED <<pendingSnapshots, wkps, ctxDone, prod, preq, nextId, attempts,
                   outcomes>>

\* select, case <-ctx.Done(): return
WorkerDone ==
    /\ wkpc = "select"
    /\ ctxDone
    /\ wkpc' = "exited"
    /\ UNCHANGED <<pendingSnapshots, wkps, ctxDone, prod, preq, nextId, attempts,
                   outcomes>>

WorkerReceivePeek ==
    /\ wkpc = "select"
    /\ pendingSnapshots # <<>>
    /\ wkps' = Head(pendingSnapshots)
    /\ UNCHANGED pendingSnapshots
    /\ wkpc' = "saving"
    /\ attempts' = IF Head(pendingSnapshots).id = 0
                      THEN attempts
                      ELSE Append(attempts, Head(pendingSnapshots).id)
    /\ UNCHANGED <<ctxDone, prod, preq, nextId, outcomes>>

\* select, case ps := <-c.pendingSnapshots: store.SaveSnapshot is called.
WorkerReceive ==
    /\ wkpc = "select"
    /\ pendingSnapshots # <<>>
    /\ wkps' = Head(pendingSnapshots)
    /\ pendingSnapshots' = Tail(pendingSnapshots)
    /\ wkpc' = "saving"
    /\ attempts' = IF Head(pendingSnapshots).id = 0
                      THEN attempts
                      ELSE Append(attempts, Head(pendingSnapshots).id)
    /\ UNCHANGED <<ctxDone, prod, preq, nextId, outcomes>>

SaveSnapshotReturnsExitOnError(ok) ==
    /\ wkpc = "saving"
    /\ outcomes' = IF wkps.id = 0 THEN outcomes ELSE Append(outcomes, ok)
    /\ wkpc' = IF ok THEN "select" ELSE "exited"
    /\ wkps' = <<>>
    /\ UNCHANGED <<pendingSnapshots, ctxDone, prod, preq, nextId, attempts>>

\* store.SaveSnapshot returns, with an error or without: an error is logged,
\* and the loop goes back to the select.
SaveSnapshotReturns(ok) ==
    /\ wkpc = "saving"
    /\ outcomes' = IF wkps.id = 0 THEN outcomes ELSE Append(outcomes, ok)
    /\ wkpc' = "select"
    /\ wkps' = <<>>
    /\ UNCHANGED <<pendingSnapshots, ctxDone, prod, preq, nextId, attempts>>

PersistFrame ==
    UNCHANGED <<chainVars, feedVars, obsVars, ctorVars, waitVars, soonVars>>

NextPersist ==
    \/ \E b \in Blocks \cup {Nil}, s \in {"s1"} : Publish(b, s)
    \/ \E h \in 1 .. MaxReqHeight, s \in {"s1"} : RequestSnapshot(h, s) /\ PersistFrame
    \/ EnqueueSend /\ PersistFrame
    \/ CancelCtx /\ PersistFrame
    \/ WorkerDone /\ PersistFrame
    \/ WorkerReceive /\ PersistFrame
    \/ \E ok \in BOOLEAN : SaveSnapshotReturns(ok) /\ PersistFrame

SpecPersist == Init /\ [][NextPersist]_vars

\* The persistence goroutine and a producer that never stops; the goroutine
\* reads nothing of the register, which is left as NewChain seeded it.
NextPersistForever ==
    \/ \E h \in 1 .. MaxReqHeight, s \in {"s1"} : RequestSnapshot(h, s) /\ PersistFrame
    \/ \E h \in 1 .. MaxReqHeight, s \in {"s1"} : RequestMore(h, s) /\ PersistFrame
    \/ EnqueueSend /\ PersistFrame
    \/ CancelCtx /\ PersistFrame
    \/ WorkerDone /\ PersistFrame
    \/ WorkerReceive /\ PersistFrame
    \/ \E ok \in BOOLEAN : SaveSnapshotReturns(ok) /\ PersistFrame

\* store.SaveSnapshot returns, and the select, which picks among its ready
\* cases by a uniform pseudo-random choice, does not pass over the case
\* <-ctx.Done() again and again for ever while it is ready.
FairSpecPersist ==
    /\ InitLoaded /\ [][NextPersistForever]_vars
    /\ WF_vars(\E ok \in BOOLEAN : SaveSnapshotReturns(ok) /\ PersistFrame)
    /\ SF_vars(WorkerDone /\ PersistFrame)

---------------------------------------------------------------------------
(* The feed goroutine and the ctx passed to NewChain.                      *)

NextFeed ==
    \/ \E b \in Blocks \cup {Nil}, s \in {"s1"} : Publish(b, s)
    \/ \E h \in Heights : FeedHeight(h)
    \/ FeedClosed
    \/ ReadHeight
    \/ CancelCtx /\ PersistFrame

SpecFeed == Init /\ [][NextFeed]_vars

\* A value that the heights channel delivers is received and applied: the
\* goroutine, runnable, is scheduled.  Nothing obliges the owner of the
\* channel to close it.
FairSpecFeed ==
    SpecFeed /\ WF_vars(\E h \in Heights : FeedHeight(h))

---------------------------------------------------------------------------
(* The whole program: every goroutine and every caller.  The components    *)
(* above interact only through (height, block, snapshot) and the wake-ups  *)
(* of Broadcast, and each of the specifications above keeps the actions    *)
(* that write what its component reads.                                    *)

Next ==
    NextChain \/ NextWait \/ NextSoon \/ NextPersist \/ NextPersistForever \/ NextFeed

Spec == Init /\ [][Next]_vars

---------------------------------------------------------------------------
(* Properties of the register.                                             *)

\* C1: in every step of every interleaving of setState calls and feed
\* advances the height field does not decrease, and the values returned by
\* an observer's successive Height() calls do not decrease.
C1_HeightNeverDecreases ==
    [][height' >= height /\ obsHeight' >= obsHeight]_vars

\* C1 witness: the observer has read a height, the height has advanced past
\* what it read, and a block below the observed height was then published.
C1_Witness ==
    /\ obsHeight >= 1
    /\ height > obsHeight
    /\ lastPub # NoPublish
    /\ block # Nil
    /\ BlockHeight(block) < obsHeight

\* C2 (as stated): once setState(b, s) has returned, a State() that no
\* longer returns (b, s) returns a pair whose block is strictly higher than b.
C2_Original ==
    [][(lastPub # NoPublish /\ lastPub[1] # Nil /\ State' # lastPub)
         => (block' # Nil /\ BlockHeight(block') > BlockHeight(lastPub[1]))]_vars

\* C2 (amended): State() returns the pair of the most recent setState call,
\* in the order the calls held the mutex, whatever the heights of the blocks;
\* it never returns the pair of an earlier call.
C2_LatestPublish ==
    lastPub # NoPublish => State = lastPub

\* C2 witness: the latest publish carried a block below the current height
\* and State() returns it.
C2_Witness ==
    /\ lastPub # NoPublish
    /\ lastPub[1] # Nil
    /\ BlockHeight(lastPub[1]) < height
    /\ State = lastPub

\* C3 (as stated): block is nil only if the chain was never initialised
\* (height 0, nothing published), and otherwise block.Height = height.
C3_Original ==
    /\ block = Nil => height = 0
    /\ block # Nil => BlockHeight(block) = height

\* C3 (amended): a chain seeded at height 0 on which nothing was published
\* has a nil block, and a non-nil block is never above the height:
\* block.Height <= height.
C3_BlockNotAhead ==
    /\ (height = 0 /\ lastPub = NoPublish) => block = Nil
    /\ block # Nil => BlockHeight(block) <= height

\* C3 witness: after a publish of a block that is not higher than the
\* height, the block is strictly below the height.
C3_Witness ==
    /\ lastPub # NoPublish
    /\ block # Nil
    /\ BlockHeight(block) < height

---------------------------------------------------------------------------
(* Properties of NewChain, of its feed goroutine and of State().           *)

\* The chain is as NewChain returned it, from a store at height >= 1 whose
\* GetBlock or LatestSnapshot failed: without a feed the height moves only
\* in a publish, so a height >= 1 with nothing published is the store's.
SeededFromFailedLoad ==
    /\ lastPub = NoPublish
    /\ height >= 1
    /\ (block = Nil \/ snapshot = NilSnapshot)

\* C11: when the store reports a height >= 1 and GetBlock or the snapshot
\* load fails, NewChain returns an error, and no chain with that height and
\* a nil block (or nil snapshot) is handed to callers.
C11_Original ==
    (SeededFromFailedLoad /\ obsHeight # NoRead) => newChainErr # NoError

\* C15: a State() call on a chain on which nothing was published returns
\* what the store holds: at store height 0 a nil block and the empty
\* snapshot; at store height h >= 1 the block at h and a snapshot that the
\* store recorded for height h, not for an earlier height.
C15_Original ==
    (lastPub = NoPublish /\ obsState # NoState) =>
        IF height = 0
          THEN obsState = <<Nil, EmptySnapshot>>
          ELSE /\ obsState[1] = BlockAt(height)
               /\ obsState[2] \in StoredSnapshots
               /\ latestHeight = height

\* C13: once the ctx passed to NewChain is cancelled, the feed goroutine
\* eventually returns, also when the heights channel is never closed.
C13_Original ==
    (ctxDone /\ feed = "ranging") ~> (feed = "exited")

\* C14: the pair a State() call returns is the pair NewChain seeded or the
\* two arguments of one setState call, never the block of one call with the
\* snapshot of another, and it is the pair the register held at that moment.
C14_NoTornPair ==
    /\ [](obsState # NoState => obsState \in {seeded} \cup PublishedPairs)
    /\ [][obsState' # obsState => obsState' = <<block, snapshot>>]_vars

\* C14 witness: a State() call has returned the pair of one publish, and a
\* later publish has replaced both the block and the snapshot.
C14_Witness ==
    /\ obsState # NoState
    /\ obsState # seeded
    /\ lastPub # NoPublish
    /\ obsState[1] # lastPub[1]
    /\ obsState[2] # lastPub[2]
    /\ State = lastPub

---------------------------------------------------------------------------
(* Properties of BlockWaiter.                                              *)

\* C4: the goroutine of BlockWaiter(H) delivers on its channel only in a
\* step taken while height >= H, also after it was woken by advances to
\* heights below H, and it delivers one value and never another.
C4_ResolveOnlyAtTarget ==
    [][\A w \in Standalone :
          /\ wch'[w] # wch[w] =>
                /\ height >= wtarget[w]
                /\ wch[w] = 0 /\ wch'[w] = 1
                /\ wpc'[w] = "done"
          /\ wpc[w] = "done" => (wpc'[w] = "done" /\ wch'[w] = wch[w])]_vars

\* C4 witness: one waiter has resolved while another one was woken by an
\* advance to a height below its own target.
C4_Witness ==
    \E w1, w2 \in Standalone :
        /\ wpc[w1] = "done" /\ wch[w1] = 1
        /\ wpc[w2] = "woken" /\ height < wtarget[w2]

\* C5: under fair scheduling, every BlockWaiter(H) that has been called
\* resolves once the height is >= H, whether the height was reached before
\* the call or by a later publish or feed advance.
C5_EveryWaiterResolves ==
    \A w \in Standalone :
        (wpc[w] # "idle" /\ height >= wtarget[w]) ~> (wch[w] = 1)

\* C5 witness: two waiters with different targets were parked and one
\* advance has woken both, with the height at or above both targets.
C5_Witness ==
    \E w1, w2 \in Standalone :
        /\ wtarget[w1] < wtarget[w2]
        /\ wpc[w1] = "woken" /\ wpc[w2] = "woken"
        /\ height >= wtarget[w2]

---------------------------------------------------------------------------
(* Properties of BlockSoonWaiter.                                          *)

\* The ctx of call s was cancelled at a moment when the height was below
\* the target of the call.
CancelledBelowTarget(s) ==
    /\ spc[s] # "idle"
    /\ cancelHeight[s] # NoRead
    /\ cancelHeight[s] < starget[s]

\* C6: a BlockSoonWaiter(ctx, H) called while H > height + 3 never starts a
\* BlockWaiter and resolves with nothing but ErrTheDistantFuture, whatever
\* publishes and feed advances run concurrently.
C6_Original ==
    \A s \in SoonIds :
        (spc[s] # "idle" /\ starget[s] > callHeight[s] + slop)
            => /\ wpc[Inner(s)] = "idle"
               /\ sch[s] \in {<<>>, <<ErrTheDistantFuture>>}

\* C7: a BlockSoonWaiter(ctx, H) that got past the distant-future check and
\* whose ctx was cancelled while the height was below H resolves with the
\* cancellation error, never with success.
C7_Original ==
    \A s \in SoonIds :
        (CancelledBelowTarget(s) /\ wpc[Inner(s)] # "idle" /\ sch[s] # <<>>)
            => sch[s] = <<CtxErr>>

\* C8: a BlockSoonWaiter(ctx, H) called while H <= height + 3, with
\* height + 3 representable, never resolves with ErrTheDistantFuture.
C8_Original ==
    \A s \in SoonIds :
        (/\ spc[s] # "idle"
         /\ callHeight[s] + slop <= MaxUint
         /\ starget[s] <= callHeight[s] + slop)
            => sch[s] # <<ErrTheDistantFuture>>

\* C19: the channel BlockSoonWaiter(ctx, H) returns gets one value and never
\* a second one (ErrTheDistantFuture, nil or ctx.Err()); its buffer is free
\* whenever the goroutine is about to send, so the send does not wait for a
\* reader; the goroutine has returned exactly when the value is there; and
\* nil is sent only in a step taken while height >= H.
C19_OneValueNilAtTarget ==
    /\ [][\A s \in SoonIds :
            /\ sch'[s] # sch[s] =>
                  /\ sch[s] = <<>>
                  /\ sch'[s] \in {<<ErrTheDistantFuture>>, <<Success>>, <<CtxErr>>}
                  /\ sch'[s] = <<Success>> => height >= starget[s]
            /\ sch[s] # <<>> => sch'[s] = sch[s]]_vars
    /\ [](\A s \in SoonIds :
            /\ spc[s] \in {"check", "select"} => sch[s] = <<>>
            /\ spc[s] = "done" <=> Len(sch[s]) = 1
            /\ sch[s] = <<Success>> => height >= starget[s])

\* C19 witness: the handle holds nil although ctx was cancelled while the
\* height was still below the target, and nobody has read it.
C19_Witness ==
    \E s \in SoonIds :
        /\ sch[s] = <<Success>>
        /\ CancelledBelowTarget(s)
        /\ starget[s] >= 1
        /\ height >= starget[s]

\* C20: with c.Height()+slop computed modulo 2^w, a BlockSoonWaiter(ctx, H)
\* called while H <= height never resolves with ErrTheDistantFuture, also
\* when the height is within slop of the largest value.
C20_Original ==
    \A s \in SoonIds :
        (spc[s] # "idle" /\ starget[s] <= callHeight[s])
            => sch[s] # <<ErrTheDistantFuture>>

\* C17: once the handle of BlockSoonWaiter(ctx, H) has resolved with the
\* error of its cancelled ctx, no goroutine started by the call is parked in
\* cond.Wait(), also while the height is below H.
C17_Original ==
    \A s \in SoonIds :
        sch[s] = <<CtxErr>> => wpc[Inner(s)] # "waiting"

---------------------------------------------------------------------------
(* Properties of snapshot persistence.                                     *)

SaveCalls(n) == Cardinality({i \in 1 .. Len(attempts) : attempts[i] = n})
Waiting(n) ==
    Cardinality({i \in 1 .. Len(pendingSnapshots) : pendingSnapshots[i].id = n})
        + (IF prod = "sending" /\ preq.id = n THEN 1 ELSE 0)

\* C16 (as stated): every request placed on the channel is passed to
\* SaveSnapshot exactly once: never twice, and none is left in the channel
\* by a goroutine that has returned.
C16_Original ==
    /\ \A n \in 1 .. nextId : SaveCalls(n) <= 1
    /\ wkpc = "exited" => pendingSnapshots = <<>>

\* C16 (amended): a request is passed to SaveSnapshot at most once, and it
\* is passed to it in the step that takes it from the channel; a request
\* that was not passed to SaveSnapshot is still in the channel or in the
\* producer's send, where it stays once the goroutine has returned on ctx.
C16_AtMostOnce ==
    /\ \A n \in 1 .. nextId : SaveCalls(n) + Waiting(n) = 1
    /\ wkpc = "saving" => (SaveCalls(wkps.id) = 1 /\ attempts[Len(attempts)] = wkps.id)
    /\ (wkpc # "exited" /\ wkpc # "saving" /\ pendingSnapshots # <<>>)
          => ENABLED WorkerReceive

\* C16 witness: the goroutine has made a SaveSnapshot call, ctx was
\* cancelled with a request in the channel, and the goroutine has returned
\* leaving it there.
C16_Witness ==
    /\ wkpc = "exited"
    /\ Len(pendingSnapshots) = 1
    /\ Len(attempts) >= 1
    /\ SaveCalls(pendingSnapshots[1].id) = 0

\* C18: the channel never holds more than one request; at most one
\* SaveSnapshot call has not returned, so a call starts only after the
\* previous one has returned; and the calls are made in the order in which
\* the requests were sent.
C18_OneQueuedOneInFlight ==
    /\ Len(pendingSnapshots) <= 1
    /\ Len(attempts) - Len(outcomes) = (IF wkpc = "saving" THEN 1 ELSE 0)
    /\ \A i, j \in 1 .. Len(attempts) : i < j => attempts[i] < attempts[j]
    /\ \A i \in 1 .. Len(attempts), k \in 1 .. Len(pendingSnapshots) :
          attempts[i] < pendingSnapshots[k].id

\* C18 witness: two SaveSnapshot calls have been made, the second has not
\* returned, and the third request is in the channel.
C18_Witness ==
    /\ Len(attempts) = 2
    /\ Len(outcomes) = 1
    /\ wkpc = "saving"
    /\ Len(pendingSnapshots) = 1
    /\ prod = "idle"

\* C12: once ctx is cancelled the persistence goroutine eventually returns,
\* also when the producer keeps sending so that a request is in the channel
\* every time the goroutine is at its select.
C12_WorkerExits ==
    ctxDone ~> (wkpc = "exited")

\* C12 witness: ctx is cancelled, the goroutine is at its select with a
\* request in the channel, and the producer is already sending the next one.
C12_Witness ==
    /\ ctxDone
    /\ wkpc = "select"
    /\ Len(pendingSnapshots) = 1
    /\ prod = "sending"
    /\ preq.id = 0

\* C10: the persistence goroutine changes nothing in (height, block,
\* snapshot); when SaveSnapshot returns, with or without an error, the
\* goroutine is back at its select with the request dropped and the queue as
\* it was; it exits only when ctx is done; no request is passed to
\* SaveSnapshot twice.
C10_FailureIsSwallowed ==
    /\ [][/\ (wkpc' # wkpc \/ wkps' # wkps \/ attempts' # attempts
                 \/ outcomes' # outcomes)
               => UNCHANGED <<height, block, snapshot, lastPub>>
          /\ (wkpc = "saving" /\ wkpc' # "saving")
               => /\ wkpc' = "select"
                  /\ wkps' = <<>>
                  /\ UNCHANGED <<pendingSnapshots, ctxDone, prod, preq, nextId,
                               attempts>>]_vars
    /\ [](wkpc = "exited" => ctxDone)
    /\ [](\A i, j \in 1 .. Len(attempts) : attempts[i] = attempts[j] => i = j)

\* C10 witness: a SaveSnapshot call has failed, a later request has been
\* passed to SaveSnapshot, and a publish has gone through.
C10_Witness ==
    /\ Len(outcomes) >= 1
    /\ ~outcomes[1]
    /\ Len(attempts) >= 2
    /\ lastPub # NoPublish
    /\ State = lastPub

====
